---- MODULE Spec2Model ----
(***************************************************************************)
(* Model of examples/bayesian_neural_net.py: make_nn_funs and the three    *)
(* closures it builds (unpack_layers, predictions, logprob).               *)
(*                                                                         *)
(* An ndarray is a record [err, shape, data]: data is the C-order          *)
(* (row-major) flat buffer, shape the tuple of dimensions.  A raised       *)
(* exception is a record whose err field names it.  Array elements are     *)
(* integers; the quotient by noise_variance is an extended rational        *)
(* [num, den] with den = 0 standing for the IEEE results of a division     *)
(* by zero (num = -1: -inf, num = 1: +inf, num = 0: nan).                  *)
(***************************************************************************)
EXTENDS Integers, Sequences, FiniteSets, TLC

\* ------------------------------------------------------------------ bounds
\* the most units (the sum of the layer widths) a layer schedule holds
MaxUnits == 4
\* the most weight samples (rows of a WeightBatch)
MaxS == 2
\* the most data points (rows of an InputBatch)
MaxN == 2

\* ------------------------------------------------------------ numpy arrays
\* the buffer is kept as a tuple
Arr(shape, data) == [err |-> "", shape |-> shape, data |-> data \o <<>>]
Raise(e) == [err |-> e, shape |-> <<>>, data |-> <<>>]

RECURSIVE Prod(_)
Prod(s) == IF s = <<>> THEN 1 ELSE Head(s) * Prod(Tail(s))

RECURSIVE SumSeq(_)
SumSeq(s) == IF s = <<>> THEN 0 ELSE Head(s) + SumSeq(Tail(s))

Min(a, b) == IF a < b THEN a ELSE b
Max(a, b) == IF a > b THEN a ELSE b

\* len(a): the first dimension
len(a) == a.shape[1]

\* a[:, lo:hi] of a 2-D array; Python clamps both slice ends to the width
SliceCols(a, lo, hi) ==
  LET rows == a.shape[1]
      cols == a.shape[2]
      l == Min(lo, cols)
      h == Max(l, Min(hi, cols))
      w == h - l
  IN Arr(<<rows, w>>,
         [k \in 1..(rows * w) |->
            a.data[((k - 1) \div w) * cols + l + ((k - 1) % w) + 1]])

\* a.reshape(shape): same buffer, new shape; the sizes must agree
reshape(a, shape) ==
  IF Prod(shape) = Len(a.data)
    THEN Arr(shape, a.data)
    ELSE Raise("ValueError: cannot reshape")

\* np.expand_dims(a, 0)
expand_dims0(a) == Arr(<<1>> \o a.shape, a.data)

\* numpy's broadcasting rule for one dimension; -1: the sizes do not broadcast
BDim(a, b) == IF a = b THEN a ELSE IF a = 1 THEN b ELSE IF b = 1 THEN a ELSE -1

\* a shape of rank <= 3 padded on the left with 1s, as broadcasting aligns it
Pad3(s) == [i \in 1..(3 - Len(s)) |-> 1] \o s

\* element (i, j, k), 0-based, of an array viewed in 3-D; a dimension of size 1
\* is read at index 0 whatever the index asked (stride 0)
Elem3(a, i, j, k) ==
  LET s == Pad3(a.shape)
      ii == IF s[1] = 1 THEN 0 ELSE i
      jj == IF s[2] = 1 THEN 0 ELSE j
      kk == IF s[3] = 1 THEN 0 ELSE k
  IN a.data[(ii * s[2] + jj) * s[3] + kk + 1]

\* the shape two arrays of rank <= 3 broadcast to, in 3-D
BShape(a, b) ==
  LET s == Pad3(a.shape)
      t == Pad3(b.shape)
  IN <<BDim(s[1], t[1]), BDim(s[2], t[2]), BDim(s[3], t[3])>>

\* an elementwise binary ufunc with broadcasting
BinOp(Op(_, _), a, b) ==
  LET s == BShape(a, b)
      r == Max(Len(a.shape), Len(b.shape))
  IN IF \E i \in 1..3 : s[i] = -1
       THEN Raise("ValueError: operands could not be broadcast together")
       ELSE Arr(SubSeq(s, 4 - r, 3),
                [p \in 1..Prod(s) |->
                   LET i == (p - 1) \div (s[2] * s[3])
                       j == ((p - 1) \div s[3]) % s[2]
                       k == (p - 1) % s[3]
                   IN Op(Elem3(a, i, j, k), Elem3(b, i, j, k))])

Plus(x, y) == x + y
Minus(x, y) == x - y

\* an elementwise unary function
Map(F(_), a) == Arr(a.shape, [p \in 1..Len(a.data) |-> F(a.data[p])])

Square(x) == x * x

\* np.sum(a, axis=1) of a 2-D array (rows, cols): shape (rows,)
SumAxis1of2(a) ==
  LET rows == a.shape[1]
      cols == a.shape[2]
  IN Arr(<<rows>>,
         [r \in 1..rows |-> SumSeq([c \in 1..cols |-> a.data[(r - 1) * cols + c]])])

\* np.sum(a, axis=1) of a 3-D array (S, N, O): shape (S, O)
SumAxis1of3(a) ==
  LET S == a.shape[1]
      N == a.shape[2]
      O == a.shape[3]
  IN Arr(<<S, O>>,
         [p \in 1..(S * O) |->
            LET s == (p - 1) \div O
                o == (p - 1) % O
            IN SumSeq([n \in 1..N |-> a.data[(s * N + (n - 1)) * O + o + 1]])])

\* a[:, 0] of a 2-D array
Col0(a) ==
  IF a.shape[2] = 0
    THEN Raise("IndexError: index 0 is out of bounds")
    ELSE Arr(<<a.shape[1]>>,
             [r \in 1..a.shape[1] |-> a.data[(r - 1) * a.shape[2] + 1]])

\* np.einsum('mnd,mdo->mno', x, W): labels m and d are shared; einsum lets a
\* dimension of size 1 broadcast against the other operand's size for the label
einsum(x, W) ==
  LET M == BDim(x.shape[1], W.shape[1])
      D == BDim(x.shape[3], W.shape[2])
      N == x.shape[2]
      O == W.shape[3]
  IN IF M = -1 \/ D = -1
       THEN Raise("ValueError: einsum operands could not be broadcast together")
       ELSE Arr(<<M, N, O>>,
                [p \in 1..(M * N * O) |->
                   LET m == (p - 1) \div (N * O)
                       n == ((p - 1) \div O) % N
                       o == (p - 1) % O
                   IN SumSeq([d \in 1..D |->
                                Elem3(x, m, n, d - 1) * Elem3(W, m, d - 1, o)])])

\* ------------------------------------------------- IEEE quotient, exactly
Abs(x) == IF x < 0 THEN -x ELSE x
Sign(x) == IF x < 0 THEN -1 ELSE IF x > 0 THEN 1 ELSE 0

RECURSIVE Gcd(_, _)
Gcd(a, b) == IF b = 0 THEN a ELSE Gcd(b, a % b)

Rat(n, d) ==
  IF d = 0 THEN [num |-> Sign(n), den |-> 0]
  ELSE LET g == Gcd(Abs(n), Abs(d))
       IN [num |-> Sign(d) * (n \div g), den |-> Abs(d) \div g]

RatAdd(a, b) ==
  IF a.den = 0 /\ b.den = 0
    THEN (IF a.num = b.num THEN a ELSE [num |-> 0, den |-> 0])
  ELSE IF a.den = 0 THEN a
  ELSE IF b.den = 0 THEN b
  ELSE Rat(a.num * b.den + b.num * a.den, a.den * b.den)

\* ------------------------------------------------------------ the program
VARIABLES
  nn,        \* what make_nn_funs built: the closure variables of the three functions
  weights,   \* the caller's WeightBatch
  inputs,    \* the caller's InputBatch
  targets,   \* the caller's TargetBatch
  fn,        \* the function called last: "", "predictions" or "logprob"
  ret,       \* what that call returned, or the exception it raised
  prev,      \* what the call before it returned, when it was a call of the same function
  yielded,   \* the (W, b) pairs unpack_layers yielded during the last call
  rest       \* unpack_layers' remaining slice (its local `weights`) when the call ended

vars == <<nn, weights, inputs, targets, fn, ret, prev, yielded, rest>>

None == Raise("none")

\* shapes = list(zip(layer_sizes[:-1], layer_sizes[1:]))
zip_shapes(layer_sizes) ==
  [i \in 1..(Len(layer_sizes) - 1) |-> <<layer_sizes[i], layer_sizes[i + 1]>>]

\* num_weights = sum((m+1)*n for m, n in shapes)
count_weights(shps) == SumSeq([i \in 1..Len(shps) |-> (shps[i][1] + 1) * shps[i][2]])

\* a make_nn_funs that validated its configuration
make_nn_funs_checked(layer_sizes, L2_reg, noise_variance, nonlinearity) ==
  [err |-> IF noise_variance <= 0 \/ L2_reg < 0 THEN "ConfigurationError" ELSE "",
   layer_sizes |-> layer_sizes,
   L2_reg |-> L2_reg,
   noise_variance |-> noise_variance,
   nonlinearity |-> nonlinearity,
   shapes |-> zip_shapes(layer_sizes),
   num_weights |-> count_weights(zip_shapes(layer_sizes))]

\* make_nn_funs up to its return statement: no argument is inspected
make_nn_funs(layer_sizes, L2_reg, noise_variance, nonlinearity) ==
  [err |-> "",
   layer_sizes |-> layer_sizes,
   L2_reg |-> L2_reg,
   noise_variance |-> noise_variance,
   nonlinearity |-> nonlinearity,
   shapes |-> zip_shapes(layer_sizes),
   num_weights |-> count_weights(zip_shapes(layer_sizes))]

shapes == nn.shapes
num_weights == nn.num_weights
L2_reg == nn.L2_reg
noise_variance == nn.noise_variance

\* the caller-supplied elementwise nonlinearity: the identity, or relu (line 79)
nonlinearity(x) == IF nn.nonlinearity = "relu" THEN Max(x, 0) ELSE x

\* weights[:, :m*n].reshape((num_weight_sets, m, n))
take_W(w, S, m, n) == reshape(SliceCols(w, 0, m * n), <<S, m, n>>)

\* a bias read from the head of the slice instead of after the matrix
take_b_head(w, S, m, n) == reshape(SliceCols(w, 0, n), <<S, 1, n>>)

\* weights[:, m*n:m*n+n].reshape((num_weight_sets, 1, n))
take_b(w, S, m, n) == reshape(SliceCols(w, m * n, m * n + n), <<S, 1, n>>)

\* a cursor that skips the matrix and not the bias
advance_no_bias(w, m, n) == SliceCols(w, m * n, w.shape[2])

\* weights = weights[:, (m+1)*n:]
advance(w, m, n) == SliceCols(w, (m + 1) * n, w.shape[2])

\* the generator's loop from pair i on: w is its local `weights`, acc the pairs
\* yielded so far.  A reshape that fails ends the generator with the exception.
RECURSIVE unpack_from(_, _, _, _)
unpack_from(i, w, S, acc) ==
  IF i > Len(shapes) THEN [pairs |-> acc, err |-> "", rest |-> w]
  ELSE LET m == shapes[i][1]
           n == shapes[i][2]
           W == take_W(w, S, m, n)
           b == take_b(w, S, m, n)
       IN IF W.err # "" THEN [pairs |-> acc, err |-> W.err, rest |-> w]
          ELSE IF b.err # "" THEN [pairs |-> acc, err |-> b.err, rest |-> w]
          ELSE unpack_from(i + 1, advance(w, m, n), S, Append(acc, <<W, b>>))

unpack_layers(w) == unpack_from(1, w, len(w), <<>>)

\* outputs = np.einsum('mnd,mdo->mno', inputs, W) + b
layer_outputs(x, W, b) ==
  LET e == einsum(x, W)
  IN IF e.err # "" THEN e ELSE BinOp(Plus, e, b)

\* a predictions that returned the activated output of the last layer
loop_result_activated(outputs, x) == x

\* what predictions returns once its loop has ended normally
loop_result(outputs, x) == outputs

\* the loop of predictions over the generator u, from pair i on; x is the local
\* `inputs`, outputs the local `outputs`.  The generator is pulled lazily: pair i
\* is used before pair i+1 is asked for, so an exception of the generator
\* surfaces after the pairs it yielded were consumed.
RECURSIVE forward(_, _, _, _)
forward(u, i, x, outputs) ==
  IF i > Len(u.pairs)
    THEN [ret |-> IF u.err # "" THEN Raise(u.err) ELSE loop_result(outputs, x),
          yielded |-> u.pairs,
          rest |-> u.rest]
  ELSE LET out == layer_outputs(x, u.pairs[i][1], u.pairs[i][2])
       IN IF out.err # ""
            THEN [ret |-> out, yielded |-> SubSeq(u.pairs, 1, i), rest |-> None]
            ELSE forward(u, i + 1, Map(nonlinearity, out), out)

\* the run of predictions(w, x): its result and what it did to the generator
run_predictions(w, x) == forward(unpack_layers(w), 1, expand_dims0(x), None)

predictions(w, x) == run_predictions(w, x).ret

\* log_prior = -L2_reg * np.sum(weights**2, axis=1)
log_prior(w) == Map(LAMBDA v : (-L2_reg) * v, SumAxis1of2(Map(Square, w)))

\* a log_lik that forgot the division by noise_variance
log_lik_undivided(preds, t) ==
  LET diff == BinOp(Minus, preds, t)
  IN IF diff.err # "" THEN diff
     ELSE LET col == Col0(SumAxis1of3(Map(Square, diff)))
          IN IF col.err # "" THEN col
             ELSE Map(LAMBDA v : Rat(-v, 1), col)

\* a log_lik that subscripted before it summed: np.sum(sq[:, 0], axis=1)
log_lik_first_row(preds, t) ==
  LET diff == BinOp(Minus, preds, t)
  IN IF diff.err # "" THEN diff
     ELSE IF diff.shape[2] = 0 THEN Raise("IndexError: index 0 is out of bounds")
     ELSE LET sq == Map(Square, diff)
              O == sq.shape[3]
              row0 == Arr(<<sq.shape[1], O>>,
                          [p \in 1..(sq.shape[1] * O) |->
                             sq.data[((p - 1) \div O) * sq.shape[2] * O + ((p - 1) % O) + 1]])
          IN Map(LAMBDA v : Rat(-v, noise_variance), SumAxis1of2(row0))

\* a log_lik that averaged over the data points instead of summing
log_lik_mean(preds, t) ==
  LET diff == BinOp(Minus, preds, t)
  IN IF diff.err # "" THEN diff
     ELSE LET col == Col0(SumAxis1of3(Map(Square, diff)))
          IN IF col.err # "" THEN col
             ELSE Map(LAMBDA v : Rat(-v, noise_variance * diff.shape[2]), col)

\* log_lik = -np.sum((preds - targets)**2, axis=1)[:, 0] / noise_variance
log_lik(preds, t) ==
  LET diff == BinOp(Minus, preds, t)
  IN IF diff.err # "" THEN diff
     ELSE LET col == Col0(SumAxis1of3(Map(Square, diff)))
          IN IF col.err # "" THEN col
             ELSE Map(LAMBDA v : Rat(-v, noise_variance), col)

\* return log_prior + log_lik
logprob(w, x, t) ==
  LET lp == log_prior(w)
      preds == predictions(w, x)
  IN IF preds.err # "" THEN preds
     ELSE LET ll == log_lik(preds, t)
          IN IF ll.err # "" THEN ll
             ELSE BinOp(LAMBDA a, b : RatAdd(Rat(a, 1), b), lp, ll)

\* ------------------------------------------------------------- the callers
\* layer schedules: at least two layers, every width positive
LayerSchedules ==
  {ls \in UNION {[1..k -> 1..MaxUnits] : k \in 2..MaxUnits} : SumSeq(ls) <= MaxUnits}

\* the L2_reg and noise_variance a caller may pass, valid or not
L2Values == {-1, 0, 2}
NoiseValues == {-1, 0, 2}
Nonlinearities == {"identity", "relu"}
Seeds == {0, 1}
\* the numbers of weight samples and of data points a caller passes
SampleCounts == {1, MaxS}
DataCounts == {0, 1, MaxN}

\* an array of the given shape holding a fixed pattern of values in -3..3
Fill(shape, seed) ==
  Arr(shape, [k \in 1..Prod(shape) |-> ((3 * k + 1 + seed * (2 * k + 1)) % 7) - 3])

Unbuilt ==
  [err |-> "unbuilt", layer_sizes |-> <<>>, L2_reg |-> 0, noise_variance |-> 0,
   nonlinearity |-> "", shapes |-> <<>>, num_weights |-> 0]

Init ==
  /\ nn = Unbuilt
  /\ weights = None /\ inputs = None /\ targets = None
  /\ fn = "" /\ ret = None /\ prev = None
  /\ yielded = <<>> /\ rest = None

\* num_weights, predictions, logprob = make_nn_funs(...)
Make ==
  /\ nn = Unbuilt
  /\ \E ls \in LayerSchedules, l2 \in L2Values, nv \in NoiseValues,
        nl \in Nonlinearities :
       nn' = make_nn_funs(ls, l2, nv, nl)
  /\ UNCHANGED <<weights, inputs, targets, fn, ret, prev, yielded, rest>>

\* the caller builds arrays of the shapes the docstrings and the schedule ask for
ChooseArgs ==
  /\ nn.err = "" /\ weights = None
  /\ \E S \in SampleCounts, N \in DataCounts, seed \in Seeds :
       /\ weights' = Fill(<<S, num_weights>>, seed)
       /\ inputs' = Fill(<<N, nn.layer_sizes[1]>>, seed)
       /\ targets' = Fill(<<N, 1>>, seed + 1)
  /\ UNCHANGED <<nn, fn, ret, prev, yielded, rest>>

\* the caller builds 2-D arrays of any shapes
ChooseAnyArgs ==
  /\ nn.err = "" /\ weights = None
  /\ \E S \in SampleCounts, Wd \in (num_weights - 1)..(num_weights + 1),
        N \in DataCounts \ {0}, D \in 1..(MaxUnits - 1), Nt \in DataCounts :
       /\ weights' = Fill(<<S, Wd>>, 0)
       /\ inputs' = Fill(<<N, D>>, 0)
       /\ targets' = Fill(<<Nt, 1>>, 1)
  /\ UNCHANGED <<nn, fn, ret, prev, yielded, rest>>

\* a call that left its cursor in the caller's array
after_call_consumed(a, r) == r.rest

\* the caller's array after a call that was handed it: the functions only rebind
\* their local names to new views and never store through them
after_call(a, r) == a

\* predictions(weights, inputs)
CallPredictions ==
  /\ nn.err = "" /\ weights # None
  /\ LET r == run_predictions(weights, inputs)
     IN /\ fn' = "predictions"
        /\ ret' = r.ret
        /\ prev' = IF fn = "predictions" THEN ret ELSE None
        /\ yielded' = r.yielded
        /\ rest' = r.rest
        /\ weights' = after_call(weights, r)
  /\ UNCHANGED <<nn, inputs, targets>>

\* logprob(weights, inputs, targets)
CallLogprob ==
  /\ nn.err = "" /\ weights # None
  /\ LET r == run_predictions(weights, inputs)
     IN /\ fn' = "logprob"
        /\ ret' = logprob(weights, inputs, targets)
        /\ prev' = IF fn = "logprob" THEN ret ELSE None
        /\ yielded' = r.yielded
        /\ rest' = r.rest
        /\ weights' = after_call(weights, r)
  /\ UNCHANGED <<nn, inputs, targets>>

Next == Make \/ ChooseArgs \/ CallPredictions \/ CallLogprob
Spec == Init /\ [][Next]_vars

NextAnyShape == Make \/ ChooseAnyArgs \/ CallPredictions \/ CallLogprob
SpecAnyShape == Init /\ [][NextAnyShape]_vars

\* ---------------------------------------------------------------- claims
\* element (s, c), 0-based, of a 2-D array
At2(a, s, c) == a.data[s * a.shape[2] + c + 1]
\* element (s, r, c), 0-based, of a 3-D array
At3(a, s, r, c) == a.data[(s * a.shape[2] + r) * a.shape[3] + c + 1]

NumS == weights.shape[1]
NumN == inputs.shape[1]
NumPairs == Len(shapes)

\* the flat column where the block of layer pair i starts
RECURSIVE Off(_)
Off(i) == IF i = 1 THEN 0 ELSE Off(i - 1) + (shapes[i - 1][1] + 1) * shapes[i - 1][2]

\* WeightMatrix[r][c] and BiasVector[c] of pair i for sample s, read from the
\* caller's flat WeightBatch by column arithmetic
WeightAt(s, i, r, c) == At2(weights, s, Off(i) + r * shapes[i][2] + c)
BiasAt(s, i, c) == At2(weights, s, Off(i) + shapes[i][1] * shapes[i][2] + c)

\* the pre-activation of unit c of layer pair i, for sample s and data point n
RECURSIVE PreAct(_, _, _, _)
PreAct(s, n, i, c) ==
  SumSeq([d \in 1..shapes[i][1] |->
            (IF i = 1 THEN At2(inputs, n, d - 1)
                      ELSE nonlinearity(PreAct(s, n, i - 1, d - 1)))
            * WeightAt(s, i, d - 1, c)])
  + BiasAt(s, i, c)

\* C1: predictions returns, per weight sample, the raw pre-activation of the last
\* layer pair, the nonlinearity being applied after every pair but the last, with
\* WeightMatrix[i][j] at flat column i*n+j of the pair's block and the bias in
\* the n columns after it; for layer_sizes = [1,2,1] with the identity and one
\* sample the value is the one computed by hand.
C1_PredictionsRawLast ==
  fn = "predictions" =>
    /\ ret.err = ""
    /\ ret.shape = <<NumS, NumN, shapes[NumPairs][2]>>
    /\ \A s \in 0..(NumS - 1), n \in 0..(NumN - 1), o \in 0..(shapes[NumPairs][2] - 1) :
         At3(ret, s, n, o) = PreAct(s, n, NumPairs, o)
    /\ (nn.layer_sizes = <<1, 2, 1>> /\ nn.nonlinearity = "identity" /\ NumS = 1) =>
         \A n \in 0..(NumN - 1) :
           LET w == weights.data
               x == At2(inputs, n, 0)
           IN At3(ret, 0, n, 0)
                = (x * w[1] + w[3]) * w[5] + (x * w[2] + w[4]) * w[6] + w[7]

\* the scenario of C1: layer_sizes = [1,2,1], the identity, one sample with known
\* weights and the single input 1.0
C1_Witness ==
  /\ fn = "predictions"
  /\ nn.layer_sizes = <<1, 2, 1>> /\ nn.nonlinearity = "identity"
  /\ NumS = 1 /\ inputs.data = <<1>>
  /\ weights.data = <<1, -3, 0, 3, -1, 2, -2>>
  /\ ret.data = <<-3>>

\* the sum over the columns of row s of weights**2
SumSq(s) == SumSeq([c \in 1..weights.shape[2] |-> Square(At2(weights, s, c - 1))])
\* the sum over the data points of (preds[s,n,0] - targets[n,0])**2
SqErr(preds, s) ==
  SumSeq([n \in 1..NumN |-> Square(At3(preds, s, n - 1, 0) - At2(targets, n - 1, 0))])
\* row s of the caller's WeightBatch as a batch of one sample
Row(s) ==
  Arr(<<1, weights.shape[2]>>, [c \in 1..weights.shape[2] |-> At2(weights, s, c - 1)])

\* C2: logprob returns an array of length S whose entry s is
\* -L2_reg * sum_w weights[s,w]^2 - sum_n (preds[s,n,0] - targets[n,0])^2 / noise_variance
\* (the quotient being the IEEE one when noise_variance is 0), and entry s is what
\* logprob returns for row s alone.
C2_LogprobFormula ==
  fn = "logprob" =>
    /\ ret.err = ""
    /\ ret.shape = <<NumS>>
    /\ \A s \in 0..(NumS - 1) :
         LET prior == -(L2_reg * SumSq(s))
             sse == SqErr(predictions(weights, inputs), s)
             v == ret.data[s + 1]
         IN /\ noise_variance # 0 =>
                 /\ v.den > 0
                 /\ v.num * noise_variance = v.den * (prior * noise_variance - sse)
            /\ noise_variance = 0 => (v.den = 0 /\ v.num = -Sign(sse))
            /\ logprob(Row(s), inputs, targets).data = <<v>>

C2_Witness ==
  /\ fn = "logprob" /\ ret.err = ""
  /\ NumS = 2 /\ NumN = 2 /\ noise_variance = 2 /\ L2_reg = 2
  /\ ret.data[1] # ret.data[2]
  /\ \E s \in 1..2 : ret.data[s].den = 2

\* C3: the pairs unpack_layers yields are consecutive, non-overlapping column
\* blocks in schedule order, the cursor advancing by (m+1)*n after each; their
\* per-sample element counts sum to the width W, W is num_weights, and the
\* remaining slice is empty after the last pair.
C3_UnpackBlocks ==
  fn # "" =>
    /\ Len(yielded) = NumPairs
    /\ \A i \in 1..NumPairs :
         LET m == shapes[i][1]
             n == shapes[i][2]
         IN /\ yielded[i][1].shape = <<NumS, m, n>>
            /\ yielded[i][2].shape = <<NumS, 1, n>>
            /\ \A s \in 0..(NumS - 1), c \in 0..(n - 1) :
                 /\ At3(yielded[i][2], s, 0, c) = At2(weights, s, Off(i) + m * n + c)
                 /\ \A r \in 0..(m - 1) :
                      At3(yielded[i][1], s, r, c) = At2(weights, s, Off(i) + r * n + c)
    /\ SumSeq([i \in 1..Len(yielded) |->
                 Len(yielded[i][1].data) + Len(yielded[i][2].data)])
         = NumS * weights.shape[2]
    /\ weights.shape[2] = num_weights
    /\ Off(NumPairs + 1) = num_weights
    /\ rest = Arr(<<NumS, 0>>, <<>>)

C3_Witness ==
  /\ fn = "predictions"
  /\ NumPairs = 3 /\ NumS = 2
  /\ Len(yielded) = 3
  /\ rest.shape = <<2, 0>>

\* a.reshape((S, -1)) of a 3-D array
Flatten2(a) == Arr(<<a.shape[1], a.shape[2] * a.shape[3]>>, a.data)
\* np.concatenate([a, b], axis=1) of two 2-D arrays with the same row count
ConcatCols(a, b) ==
  LET ca == a.shape[2]
      cb == b.shape[2]
  IN Arr(<<a.shape[1], ca + cb>>,
         [k \in 1..(a.shape[1] * (ca + cb)) |->
            LET s == (k - 1) \div (ca + cb)
                c == (k - 1) % (ca + cb)
            IN IF c < ca THEN At2(a, s, c) ELSE At2(b, s, c - ca)])
\* the pairs flattened and concatenated in the order yielded
RECURSIVE Repack(_, _)
Repack(pairs, S) ==
  IF pairs = <<>> THEN Arr(<<S, 0>>, <<>>)
  ELSE LET k == Len(pairs)
       IN ConcatCols(Repack(SubSeq(pairs, 1, k - 1), S),
                     ConcatCols(Flatten2(pairs[k][1]), Flatten2(pairs[k][2])))

\* C4: flattening the yielded pairs back to S rows and concatenating them in the
\* order yielded reproduces the WeightBatch, column for column.
C4_RoundTrip ==
  fn # "" => Repack(yielded, NumS) = weights

C4_Witness ==
  /\ fn = "logprob"
  /\ nn.layer_sizes = <<2, 1, 1>> /\ NumS = 2
  /\ Len(yielded) = 2
  /\ Repack(yielded, 2).data = weights.data
  /\ weights.data[1] # weights.data[2]

\* a configuration within the contract: L2_reg >= 0 and noise_variance > 0
ValidConfig == L2_reg >= 0 /\ noise_variance > 0

\* C5: a call with a WeightBatch whose width differs from num_weights, smaller
\* or larger, fails with a shape-mismatch error and returns nothing (the
\* configuration and the other arguments being well formed).
C5_WidthMismatchFails ==
  (/\ fn # "" /\ ValidConfig
   /\ inputs.shape[2] = nn.layer_sizes[1] /\ targets.shape[1] = inputs.shape[1]
   /\ weights.shape[2] # num_weights)
  => ret.err # ""

\* C6: a call with an InputBatch whose feature dimension differs from the first
\* layer width, or a logprob call with a TargetBatch whose row count differs
\* from the InputBatch's, fails with a dimension-mismatch error (the
\* configuration and the WeightBatch being well formed, the TargetBatch not empty).
C6_DimMismatchFails ==
  (/\ fn # "" /\ ValidConfig
   /\ weights.shape[2] = num_weights /\ targets.shape[1] > 0
   /\ \/ inputs.shape[2] # nn.layer_sizes[1]
      \/ (fn = "logprob" /\ targets.shape[1] # inputs.shape[1]))
  => ret.err # ""

\* C7 as stated: make_nn_funs called with noise_variance <= 0 or L2_reg < 0
\* ends in a configuration error instead of returning the triple.
C7_ConfigErrorAtConstruction ==
  (nn # Unbuilt /\ (noise_variance <= 0 \/ L2_reg < 0)) => nn.err # ""

\* C7 amended: make_nn_funs raises nothing whatever noise_variance and L2_reg
\* are; it returns num_weights = sum (m+1)*n and the two functions, which use
\* the values as given: logprob then returns a score per sample, not finite
\* when noise_variance = 0 and finite otherwise.
C7_NoValidation ==
  /\ nn # Unbuilt =>
       /\ nn.err = ""
       /\ num_weights = Off(NumPairs + 1)
  /\ fn = "logprob" =>
       /\ ret.err = ""
       /\ \A s \in 1..NumS : (ret.data[s].den = 0) <=> (noise_variance = 0)

C7_Witness ==
  /\ fn = "logprob" /\ ret.err = ""
  /\ noise_variance = 0 /\ L2_reg = -1
  /\ NumN = 2
  /\ ret.data[1] = [num |-> -1, den |-> 0]

\* the rows of a 2-D array reordered: row i of the result is row p[i] of a
PermRows(a, p) ==
  Arr(a.shape,
      [k \in 1..Len(a.data) |->
         At2(a, p[((k - 1) \div a.shape[2]) + 1] - 1, (k - 1) % a.shape[2])])
Perms(n) == {p \in [1..n -> 1..n] : \A i, j \in 1..n : p[i] = p[j] => i = j}

\* C8: permuting the rows of InputBatch and TargetBatch by the same permutation
\* leaves every entry of logprob's result the same.
C8_PermutationInvariant ==
  fn = "logprob" =>
    /\ ret.err = ""
    /\ \A p \in Perms(NumN) :
         logprob(weights, PermRows(inputs, p), PermRows(targets, p)) = ret

C8_Witness ==
  /\ fn = "logprob" /\ ret.err = ""
  /\ NumN = 2 /\ NumS = 2
  /\ PermRows(inputs, <<2, 1>>) # inputs
  /\ PermRows(targets, <<2, 1>>) # targets
  /\ logprob(weights, PermRows(inputs, <<2, 1>>), PermRows(targets, <<2, 1>>)) = ret

\* C9: with no data point (inputs (0,D), targets (0,1)) logprob does not fail,
\* its log-likelihood term is 0 for every sample and its result is the log-prior
\* -L2_reg * sum_w weights[s,w]^2 (the two values for noise_variance nonzero,
\* as the contract of logprob has it).
C9_NoDataIsPrior ==
  (fn = "logprob" /\ NumN = 0) =>
    /\ ret.err = ""
    /\ ret.shape = <<NumS>>
    /\ noise_variance # 0 =>
         LET ll == log_lik(predictions(weights, inputs), targets)
         IN /\ ll.err = ""
            /\ \A s \in 1..NumS :
                 /\ ll.data[s] = [num |-> 0, den |-> 1]
                 /\ ret.data[s] = [num |-> -(L2_reg * SumSq(s - 1)), den |-> 1]

C9_Witness ==
  /\ fn = "logprob" /\ NumN = 0 /\ targets.shape = <<0, 1>>
  /\ noise_variance = 2 /\ L2_reg = 2 /\ NumS = 2
  /\ ret.err = ""
  /\ ret.data[1].num < 0

====
